---- MODULE Spec2Model ----
(***************************************************************************)
(* Model of SheetsETL (importdatafromgooglesheets.py): the three form      *)
(* processors, their per-row commit/rollback handling, and the batch       *)
(* orchestrator process_all_data.                                          *)
(*                                                                         *)
(* Cell values are Python strings, modelled as sequences of one-character  *)
(* strings, so '' is the empty sequence.  Python's None and the integer 0  *)
(* are one-element sequences holding a token that is not a character.      *)
(***************************************************************************)
EXTENDS Integers, Sequences, FiniteSets, TLC

\* ------------------------------------------------------------------ bounds
\* largest number of data rows (rows after the header) in a source range
MaxRows == 3
\* longest header / data row drawn for the row-normalisation specification
MaxLen == 2

\* ------------------------------------------------------------ Python values
EmptyStr == << >>
None == << "<None>" >>
IntZero == << "<int 0>" >>

\* column names looked up by the processors
Name == << "N", "a", "m", "e" >>
Email == << "E", "m", "a", "i", "l" >>
Department == << "D", "e", "p", "a", "r", "t", "m", "e", "n", "t" >>
Destination == << "D", "e", "s", "t", "i", "n", "a", "t", "i", "o", "n" >>
StartDate == << "S", "t", "a", "r", "t", " ", "D", "a", "t", "e" >>
EndDate == << "E", "n", "d", " ", "D", "a", "t", "e" >>
Purpose == << "P", "u", "r", "p", "o", "s", "e" >>
BuildingName == << "B", "u", "i", "l", "d", "i", "n", "g", " ", "N", "a", "m", "e" >>
Address == << "A", "d", "d", "r", "e", "s", "s" >>
TotalRooms == << "T", "o", "t", "a", "l", " ", "R", "o", "o", "m", "s" >>
CsaId == << "C", "S", "A", " ", "I", "D" >>
IncidentType == << "I", "n", "c", "i", "d", "e", "n", "t", " ", "T", "y", "p", "e" >>
Location == << "L", "o", "c", "a", "t", "i", "o", "n" >>

\* cell contents used in the source ranges
Alice == << "A", "l", "i", "c", "e" >>
AliceMail == << "a", "@", "x", ".", "c", "o", "m" >>
Bob == << "B", "o", "b" >>
HQ == << "H", "Q" >>
MainSt == << "1", " ", "M", "a", "i", "n" >>
Seven == << "7" >>
Theft == << "T", "h", "e", "f", "t" >>
Iso20240315 == << "2", "0", "2", "4", "-", "0", "3", "-", "1", "5" >>
Us03152024 == << "0", "3", "/", "1", "5", "/", "2", "0", "2", "4" >>

Kinds == << "travel", "building", "incident" >>
KindSet == { Kinds[n] : n \in 1..Len(Kinds) }

\* --------------------------------------------------------- list primitives
\* Python's  x in lst
In(x, lst) == \E n \in 1..Len(lst) : lst[n] = x

\* Python's  lst.index(x)  (0-based position of the first element equal to x)
IndexOf(lst, x) == (CHOOSE n \in 1..Len(lst) : lst[n] = x /\ \A m \in 1..(n-1) : lst[m] # x) - 1

\* Python's  [v] * n  (the empty list when n <= 0)
Repeat(v, n) == IF n <= 0 THEN << >> ELSE [ m \in 1..n |-> v ]

\* variant: the row is cut to the header's length as well as padded
NormalizeRow_Truncate(hdr, row) == [ j \in 1..Len(hdr) |-> IF j <= Len(row) THEN row[j] ELSE EmptyStr ]

\* variant: the row is used as read, without padding
NormalizeRow_NoPad(hdr, row) == row

\* row + [''] * (len(headers) - len(row))
NormalizeRow(hdr, row) == row \o Repeat(EmptyStr, Len(hdr) - Len(row))

\* Python's  lst[n]  for n >= 0: IndexError when n is past the end
IndexError == << "<IndexError>" >>
ValueError == << "<ValueError>" >>
ListGet(lst, n) == IF n < Len(lst) THEN lst[n + 1] ELSE IndexError

\* variant: headers.index(name) without the  if name in headers  guard
Extract_Unguarded(rd, hdr, name, default) == IF In(name, hdr) THEN ListGet(rd, IndexOf(hdr, name)) ELSE ValueError

\* row_data[headers.index(name)] if name in headers else default
Extract(rd, hdr, name, default) == IF In(name, hdr) THEN ListGet(rd, IndexOf(hdr, name)) ELSE default

\* source_data.index(row) + 1
RowPosition(source_data, row) == IndexOf(source_data, row) + 1

\* ------------------------------------------------------------ _parse_date
DigitChars == << "0", "1", "2", "3", "4", "5", "6", "7", "8", "9" >>
IsDigit(c) == In(c, DigitChars)
DigitVal(c) == IndexOf(DigitChars, c)

\* variant: the day-first slash pattern is tried before the month-first one
DateFormats_DayFirst == << << "%Y", "-", "%m", "-", "%d" >>, << "%d", "/", "%m", "/", "%Y" >>, << "%m", "/", "%d", "/", "%Y" >> >>

\* the three patterns of _parse_date, as directive lists
DateFormats == << << "%Y", "-", "%m", "-", "%d" >>, << "%m", "/", "%d", "/", "%Y" >>, << "%d", "/", "%m", "/", "%Y" >> >>

NoMatch == [ ok |-> FALSE, Y |-> 0, m |-> 0, d |-> 0 ]

\* does s hold the digit-range pattern at p: first char in lo1..hi1, and
\* (for a two-character alternative) the second in lo2..hi2
CharIn(s, p, lo, hi) == p <= Len(s) /\ IsDigit(s[p]) /\ DigitVal(s[p]) >= lo /\ DigitVal(s[p]) <= hi

\* the ordered regex alternatives of _strptime for each directive; each
\* alternative is <<width, value>> when it matches at p, taken in order
MonthAlts(s, p) ==
  (IF CharIn(s, p, 1, 1) /\ CharIn(s, p + 1, 0, 2) THEN << << 2, 10 + DigitVal(s[p + 1]) >> >> ELSE << >>)
  \o (IF CharIn(s, p, 0, 0) /\ CharIn(s, p + 1, 1, 9) THEN << << 2, DigitVal(s[p + 1]) >> >> ELSE << >>)
  \o (IF CharIn(s, p, 1, 9) THEN << << 1, DigitVal(s[p]) >> >> ELSE << >>)

DayAlts(s, p) ==
  (IF CharIn(s, p, 3, 3) /\ CharIn(s, p + 1, 0, 1) THEN << << 2, 30 + DigitVal(s[p + 1]) >> >> ELSE << >>)
  \o (IF CharIn(s, p, 1, 2) /\ CharIn(s, p + 1, 0, 9) THEN << << 2, 10 * DigitVal(s[p]) + DigitVal(s[p + 1]) >> >> ELSE << >>)
  \o (IF CharIn(s, p, 0, 0) /\ CharIn(s, p + 1, 1, 9) THEN << << 2, DigitVal(s[p + 1]) >> >> ELSE << >>)
  \o (IF CharIn(s, p, 1, 9) THEN << << 1, DigitVal(s[p]) >> >> ELSE << >>)
  \o (IF p <= Len(s) /\ s[p] = " " /\ CharIn(s, p + 1, 1, 9) THEN << << 2, DigitVal(s[p + 1]) >> >> ELSE << >>)

YearAlts(s, p) ==
  IF CharIn(s, p, 0, 9) /\ CharIn(s, p + 1, 0, 9) /\ CharIn(s, p + 2, 0, 9) /\ CharIn(s, p + 3, 0, 9)
  THEN << << 4, 1000 * DigitVal(s[p]) + 100 * DigitVal(s[p + 1]) + 10 * DigitVal(s[p + 2]) + DigitVal(s[p + 3]) >> >>
  ELSE << >>

\* re.match of the pattern's regex from position p, directive j onwards: the
\* first alternative (in regex order) that lets the rest of the pattern match
\* wins; the match need not reach the end of the string
RECURSIVE RegexMatch(_, _, _, _, _)
RECURSIVE TryAlts(_, _, _, _, _, _, _)
TryAlts(s, p, fmt, j, acc, alts, a) ==
  IF a > Len(alts) THEN NoMatch
  ELSE LET field == IF fmt[j] = "%Y" THEN "Y" ELSE IF fmt[j] = "%m" THEN "m" ELSE "d"
           r == RegexMatch(s, p + alts[a][1], fmt, j + 1, [ acc EXCEPT ![field] = alts[a][2] ])
       IN IF r.ok THEN r ELSE TryAlts(s, p, fmt, j, acc, alts, a + 1)

RegexMatch(s, p, fmt, j, acc) ==
  IF j > Len(fmt) THEN [ ok |-> TRUE, Y |-> acc.Y, m |-> acc.m, d |-> acc.d, end |-> p - 1 ]
  ELSE IF fmt[j] = "%Y" THEN TryAlts(s, p, fmt, j, acc, YearAlts(s, p), 1)
  ELSE IF fmt[j] = "%m" THEN TryAlts(s, p, fmt, j, acc, MonthAlts(s, p), 1)
  ELSE IF fmt[j] = "%d" THEN TryAlts(s, p, fmt, j, acc, DayAlts(s, p), 1)
  ELSE IF p <= Len(s) /\ s[p] = fmt[j] THEN RegexMatch(s, p + 1, fmt, j + 1, acc)
  ELSE NoMatch

IsLeap(y) == y % 4 = 0 /\ (y % 100 # 0 \/ y % 400 = 0)
DaysInMonth(y, m) == IF m = 2 THEN (IF IsLeap(y) THEN 29 ELSE 28) ELSE IF m \in {4, 6, 9, 11} THEN 30 ELSE 31

\* datetime.strptime(s, fmt): the parsed date, or ok = FALSE for ValueError
\* (no match, unconverted data remains, year 0, day out of range for month)
Strptime(s, fmt) ==
  LET r == RegexMatch(s, 1, fmt, 1, NoMatch)
  IN IF r.ok /\ r.end = Len(s) /\ r.Y >= 1 /\ r.d <= DaysInMonth(r.Y, r.m)
     THEN [ ok |-> TRUE, Y |-> r.Y, m |-> r.m, d |-> r.d ]
     ELSE NoMatch

Pad2(n) == << DigitChars[(n \div 10) + 1], DigitChars[(n % 10) + 1] >>
Pad4(n) == << DigitChars[(n \div 1000) + 1], DigitChars[((n \div 100) % 10) + 1], DigitChars[((n \div 10) % 10) + 1], DigitChars[(n % 10) + 1] >>

\* .strftime('%Y-%m-%d').  Four year digits: a year below 1000 is rendered
\* without leading zeros by some C libraries, so date inputs are drawn with
\* years from 1000 on.
Strftime(dt) == Pad4(dt.Y) \o << "-" >> \o Pad2(dt.m) \o << "-" >> \o Pad2(dt.d)

RECURSIVE ParseWith(_, _)
ParseWith(date_str, f) ==
  IF f > Len(DateFormats) THEN None
  ELSE LET dt == Strptime(date_str, DateFormats[f])
       IN IF dt.ok THEN Strftime(dt) ELSE ParseWith(date_str, f + 1)

\* _parse_date: None for '' and for a string no pattern parses
_parse_date(date_str) == IF date_str = EmptyStr THEN None ELSE ParseWith(date_str, 1)

\* --------------------------------------------------------- field extraction
\* the column names each processor looks up, in argument order
FieldNames(k) ==
  IF k = "travel" THEN << Name, Email, Department, Destination, StartDate, EndDate, Purpose >>
  ELSE IF k = "building" THEN << BuildingName, Address, TotalRooms >>
  ELSE << CsaId, IncidentType, Location >>

\* the  else  operand of each lookup: '' everywhere except 0 for
\* 'Total Rooms' (line 189) and None for 'CSA ID' (line 244)
DefaultOf(k, name) ==
  IF k = "building" /\ name = TotalRooms THEN IntZero
  ELSE IF k = "incident" /\ name = CsaId THEN None
  ELSE EmptyStr

\* the values looked up for one row, before any date parsing
Extracted(k, rd, hdr) == [ j \in 1..Len(FieldNames(k)) |-> Extract(rd, hdr, FieldNames(k)[j], DefaultOf(k, FieldNames(k)[j])) ]

\* a lookup raised: the row's try block is left before callproc
ExtractionRaised(ex) == In(IndexError, ex)

\* variant: the date strings are handed to callproc as they were looked up
FieldsOf_Unparsed(k, ex) == ex

\* the field arguments handed to callproc: travel passes its two date
\* fields through _parse_date (lines 124-125)
FieldsOf(k, ex) ==
  IF k = "travel"
  THEN [ j \in 1..Len(ex) |-> IF FieldNames(k)[j] \in { StartDate, EndDate } THEN _parse_date(ex[j]) ELSE ex[j] ]
  ELSE ex

ProcName(k) ==
  IF k = "travel" THEN "process_travel_form"
  ELSE IF k = "building" THEN "process_building_form"
  ELSE "process_incident_form"

\* ------------------------------------------------------------------ inputs
\* values of the two configuration keys of a form kind: a non-empty string,
\* the empty string, or no such key.  The range key is only looked up when
\* the identifier is set, so it is varied only then.
Configs ==
  { [ id |-> "set", range |-> r ] : r \in { "set", "empty", "missing" } }
  \cup { [ id |-> v, range |-> "set" ] : v \in { "empty", "missing" } }

HeaderSet(k) ==
  IF k = "travel" THEN { << Name, Email >>, << Name, StartDate >> }
  ELSE IF k = "building" THEN { << BuildingName, Address, TotalRooms >>, << BuildingName >> }
  ELSE { << CsaId, IncidentType, Location >>, << IncidentType >> }

\* the data rows a range is filled from: travel ranges mix a full and a short
\* row, building and incident ranges repeat one row that is shorter than the
\* long header and longer than the short one
RowSet(k) ==
  IF k = "travel" THEN { << Alice, AliceMail >>, << Bob >> }
  ELSE IF k = "building" THEN { << HQ, MainSt >> }
  ELSE { << Seven, Theft >> }

SeqsUpTo(S, n) == UNION { [ 1..m -> S ] : m \in 0..n }

\* the non-empty 'values' the spreadsheet can hold for kind k: a header row
\* followed by at most MaxRows data rows
SheetsOf(k) == { << h >> \o rows : h \in HeaderSet(k), rows \in SeqsUpTo(RowSet(k), MaxRows) }

\* ------------------------------------------------------------------- state
VARIABLES
  config,       \* self.config['google']: per kind, the sheet id and range keys
  conn,         \* self.db_connection: "open", "lost" or "closed"
  closeCount,   \* number of db_connection.close() invocations
  pc,           \* position of the single thread of control
  kind,         \* index in Kinds of the processor being run
  started,      \* the processors process_all_data has called, in order
  finished,     \* the processors that have returned, in order
  source_data,  \* local of the running processor
  i,            \* 1-based number of the data row the loop is at
  cursor,       \* the running processor's cursor: "none", "open", "closed"
  row_data,     \* local of the running processor
  extracted,    \* the values the running processor looked up for the row
  calls,        \* callproc invocations of the running processor
  committed,    \* data rows whose commit() returned
  rolledBack,   \* data rows whose rollback() returned
  otherFault,   \* a store operation other than callproc raised in this processor
  log,          \* log entries written since the running processor began
  readCalls,    \* read_sheet invocations of the running processor
  apiReads,     \* spreadsheet values().get() calls of the running processor
  storeOps,     \* names of the store operations the running processor issued
  nextId,       \* uuid4 source: the next never-used token
  retrieval,    \* how the running processor's values().get() call ended
  run,          \* number of the process_all_data run under way
  ids,          \* per run, the identities handed to callproc, in call order
  spreadsheet,  \* per kind, whether the range's content is fixed, and that content
  pending       \* calls sent on the connection and neither committed nor rolled back

vars == << config, conn, closeCount, pc, kind, started, finished, source_data, i, cursor, row_data, extracted, calls, committed, rolledBack, otherFault, log, readCalls, apiReads, storeOps, nextId, retrieval, run, ids, spreadsheet, pending >>

K == Kinds[kind]
headers == source_data[1]
NumDataRows == Len(source_data) - 1

Init ==
  /\ config \in [ KindSet -> Configs ]
  /\ conn = "open"
  /\ closeCount = 0
  /\ pc = "begin"
  /\ kind = 1
  /\ started = << >>
  /\ finished = << >>
  /\ source_data = << >>
  /\ i = 0
  /\ cursor = "none"
  /\ row_data = << >>
  /\ extracted = << >>
  /\ calls = << >>
  /\ committed = { }
  /\ rolledBack = { }
  /\ otherFault = FALSE
  /\ log = { }
  /\ readCalls = 0
  /\ apiReads = 0
  /\ storeOps = { }
  /\ nextId = 1
  /\ retrieval = "none"
  /\ run = 1
  /\ ids = << << >> >>
  /\ spreadsheet = [ k \in KindSet |-> [ fixed |-> FALSE, values |-> << >> ] ]
  /\ pending = { }

\* ------------------------------------------------------- store environment
\* how a call on the connection or its cursor can end: it returns, it raises
\* with the connection still usable, or it raises because the connection is
\* gone (after which every further call raises)
StoreOutcomes == IF conn = "open" THEN { "ok", "error", "lost" } ELSE { "lost" }
ConnAfter(o) == IF o = "lost" THEN "lost" ELSE conn
\* the server discards the uncommitted work of a connection that is gone
PendingAfter(o, work) == IF o = "lost" THEN { } ELSE work

\* ------------------------------------------------------------- processors
\* variant: the outer handler logs and re-raises, so the exception reaches
\* the except clause of process_all_data
ProcExcept_Reraise(entries) ==
  /\ log' = log \cup entries \cup { "proc_error", "all_error" }
  /\ pc' = "finally"

\* the processor's outer  except Exception: logging.error(...)  (lines 160-161)
ProcExcept(entries) ==
  /\ log' = log \cup entries \cup { "proc_error" }
  /\ pc' = "return"

\* variant: the identifier test is missing
IdUnconfigured_Never(k) == FALSE

\* if not self.config['google']['source_<kind>_sheet_id']  (line 100)
IdUnconfigured(k) == config[k].id = "empty"

\* if not source_data  (lines 109, 171, 228)
NoSourceData(data) == data = << >>

\* what values().get() can return for kind k's range: no 'values' at all or
\* a header row with data rows; the one fixed content if the range is fixed
RangeValues(k) == IF spreadsheet[k].fixed THEN { spreadsheet[k].values } ELSE SheetsOf(k) \cup { << >> }

\* process_<kind>_data is called; the sheet id check (lines 99-102).  A
\* missing key raises KeyError into the outer except.
Begin ==
  /\ pc = "begin"
  /\ started' = Append(started, K)
  /\ source_data' = << >>
  /\ i' = 0
  /\ cursor' = "none"
  /\ row_data' = << >>
  /\ extracted' = << >>
  /\ calls' = << >>
  /\ committed' = { }
  /\ rolledBack' = { }
  /\ otherFault' = FALSE
  /\ readCalls' = 0
  /\ apiReads' = 0
  /\ storeOps' = { }
  /\ IF config[K].id = "missing" THEN log' = { "proc_error" } /\ pc' = "return"
     ELSE IF IdUnconfigured(K) THEN log' = { "not_configured" } /\ pc' = "return"
     ELSE log' = { } /\ pc' = "read"
  /\ retrieval' = "none"
  /\ UNCHANGED << config, conn, closeCount, kind, finished, nextId, run, ids, spreadsheet, pending >>

\* the call of read_sheet (lines 81-95) and the  if not source_data  test
\* (lines 104-111).  A missing range key raises KeyError before the call.
\* The retrieval returns the range's rows, returns no 'values' at all,
\* raises HttpError (caught: []), or raises something else (not caught).
ReadSheet ==
  /\ pc = "read"
  /\ \/ /\ config[K].range = "missing"
        /\ ProcExcept({ })
        /\ UNCHANGED << source_data, readCalls, apiReads, retrieval >>
     \/ /\ config[K].range # "missing"
        /\ config[K].id = "empty" \/ config[K].range = "empty"
        /\ readCalls' = readCalls + 1
        /\ log' = log \cup { "missing_id_or_range", "no_data" }
        /\ pc' = "return"
        /\ UNCHANGED << source_data, apiReads, retrieval >>
     \/ /\ config[K].range = "set"
        /\ config[K].id # "empty"
        /\ readCalls' = readCalls + 1
        /\ apiReads' = apiReads + 1
        /\ \/ \E data \in RangeValues(K) :
                /\ retrieval' = IF data = << >> THEN "empty" ELSE "rows"
                /\ source_data' = data
                /\ IF NoSourceData(data)
                   THEN log' = log \cup { "no_data" } /\ pc' = "return"
                   ELSE pc' = "cursor" /\ UNCHANGED log
           \/ /\ retrieval' = "http_error"
              /\ source_data' = << >>
              /\ IF NoSourceData(<< >>)
                 THEN log' = log \cup { "read_error", "no_data" } /\ pc' = "return"
                 ELSE log' = log \cup { "read_error" } /\ pc' = "cursor"
           \/ /\ retrieval' = "exception"
              /\ ProcExcept({ })
              /\ UNCHANGED source_data
  /\ UNCHANGED << config, conn, closeCount, kind, started, finished, i, cursor, row_data, extracted, calls, committed, rolledBack, otherFault, storeOps, nextId, run, ids, spreadsheet, pending >>

\* cursor = self.db_connection.cursor(prepared=True)  (line 113)
OpenCursor ==
  /\ pc = "cursor"
  /\ storeOps' = storeOps \cup { "cursor" }
  /\ \E o \in StoreOutcomes :
       /\ conn' = ConnAfter(o)
       /\ pending' = PendingAfter(o, pending)
       /\ IF o = "ok"
          THEN cursor' = "open" /\ i' = 1 /\ pc' = "loop" /\ UNCHANGED log
          ELSE ProcExcept({ }) /\ UNCHANGED << cursor, i >>
  /\ UNCHANGED << config, closeCount, kind, started, finished, source_data, row_data, extracted, calls, committed, rolledBack, otherFault, readCalls, apiReads, nextId, retrieval, run, ids, spreadsheet >>

\* variant: the identity is computed from the row's cells
ResponseId_FromContent(token, row) == row

\* response_id = str(uuid.uuid4())  (lines 128, 184, 241): the token drawn
ResponseId(token, row) == token

\* variant: no try block around the row, the exception leaves the loop
RowRaised_Escapes == pc' = "return"

\* where control goes when a statement of the row's try block raises: to the
\* row's except clause (lines 151-156)
RowRaised == pc' = "except"

\* one loop iteration up to callproc (lines 116-142): normalise, extract,
\* draw the identity, call the procedure.  travel draws the identity after
\* the lookups, building and incident before them.
CallProc ==
  /\ pc = "loop"
  /\ i <= NumDataRows
  /\ LET row == source_data[i + 1]
         rd == NormalizeRow(headers, row)
         ex == Extracted(K, rd, headers)
     IN /\ row_data' = rd
        /\ extracted' = ex
        /\ IF ExtractionRaised(ex)
           THEN /\ RowRaised
                /\ otherFault' = TRUE
                /\ nextId' = IF K = "travel" THEN nextId ELSE nextId + 1
                /\ UNCHANGED << conn, calls, storeOps, ids, pending >>
           ELSE /\ \E o \in StoreOutcomes :
                     /\ conn' = ConnAfter(o)
                     /\ pending' = PendingAfter(o, pending \cup { << kind, i >> })
                     /\ calls' = Append(calls, [ idx |-> i, proc |-> ProcName(K), response_id |-> ResponseId(nextId, row), pos |-> RowPosition(source_data, row), fields |-> FieldsOf(K, ex), raised |-> (o # "ok") ])
                     /\ IF o = "ok" THEN pc' = "results" ELSE RowRaised
                /\ nextId' = nextId + 1
                /\ ids' = [ ids EXCEPT ![run] = Append(@, ResponseId(nextId, row)) ]
                /\ storeOps' = storeOps \cup { "callproc" }
                /\ UNCHANGED otherFault
  /\ UNCHANGED << config, closeCount, kind, started, finished, source_data, i, cursor, committed, rolledBack, log, readCalls, apiReads, retrieval, run, spreadsheet >>

\* for result in cursor.stored_results(): ... fetchall()  (lines 144-146);
\* the rows read are only logged
StoredResults ==
  /\ pc = "results"
  /\ storeOps' = storeOps \cup { "stored_results" }
  /\ \E o \in StoreOutcomes :
       /\ conn' = ConnAfter(o)
       /\ pending' = PendingAfter(o, pending)
       /\ IF o = "ok" THEN pc' = "commit" /\ UNCHANGED otherFault
          ELSE RowRaised /\ otherFault' = TRUE
  /\ UNCHANGED << config, closeCount, kind, started, finished, source_data, i, cursor, row_data, extracted, calls, committed, rolledBack, log, readCalls, apiReads, nextId, retrieval, run, ids, spreadsheet >>

\* variant: the loop goes on to the next row without committing
Commit_Deferred ==
  /\ pc = "commit"
  /\ i' = i + 1
  /\ pc' = "loop"
  /\ UNCHANGED << config, conn, closeCount, kind, started, finished, source_data, cursor, row_data, extracted, calls, committed, rolledBack, otherFault, log, readCalls, apiReads, storeOps, nextId, retrieval, run, ids, spreadsheet, pending >>

\* self.db_connection.commit() and the success log (lines 148-149)
Commit ==
  /\ pc = "commit"
  /\ storeOps' = storeOps \cup { "commit" }
  /\ \E o \in StoreOutcomes :
       /\ conn' = ConnAfter(o)
       /\ pending' = IF o = "ok" THEN { } ELSE PendingAfter(o, pending)
       /\ IF o = "ok"
          THEN /\ committed' = committed \cup { i }
               /\ log' = log \cup { "processed" }
               /\ i' = i + 1
               /\ pc' = "loop"
               /\ UNCHANGED otherFault
          ELSE /\ RowRaised
               /\ otherFault' = TRUE
               /\ UNCHANGED << committed, log, i >>
  /\ UNCHANGED << config, closeCount, kind, started, finished, source_data, cursor, row_data, extracted, calls, rolledBack, readCalls, apiReads, nextId, retrieval, run, ids, spreadsheet >>

\* the row's except clauses,  except Error  and  except Exception,  which
\* differ only in the logged text: log, self.db_connection.rollback() (lines
\* 151-156); a rollback that raises leaves the loop for the outer except
Rollback ==
  /\ pc = "except"
  /\ storeOps' = storeOps \cup { "rollback" }
  /\ \E o \in StoreOutcomes :
       /\ conn' = ConnAfter(o)
       /\ pending' = IF o = "ok" THEN { } ELSE PendingAfter(o, pending)
       /\ IF o = "ok"
          THEN /\ rolledBack' = rolledBack \cup { i }
               /\ log' = log \cup { "row_error" }
               /\ i' = i + 1
               /\ pc' = "loop"
               /\ UNCHANGED otherFault
          ELSE /\ ProcExcept({ "row_error" })
               /\ otherFault' = TRUE
               /\ UNCHANGED << rolledBack, i >>
  /\ UNCHANGED << config, closeCount, kind, started, finished, source_data, cursor, row_data, extracted, calls, committed, readCalls, apiReads, nextId, retrieval, run, ids, spreadsheet >>

\* the loop is exhausted: cursor.close() (line 158)
CloseCursor ==
  /\ pc = "loop"
  /\ i > NumDataRows
  /\ storeOps' = storeOps \cup { "cursor_close" }
  /\ \/ cursor' = "closed" /\ pc' = "return" /\ UNCHANGED log
     \/ ProcExcept({ }) /\ UNCHANGED cursor
  /\ UNCHANGED << config, conn, closeCount, kind, started, finished, source_data, i, row_data, extracted, calls, committed, rolledBack, otherFault, readCalls, apiReads, nextId, retrieval, run, ids, spreadsheet, pending >>

\* ------------------------------------------------------- process_all_data
\* the processor returns to process_all_data, which calls the next one or,
\* after the third, logs completion and enters the finally block
Return ==
  /\ pc = "return"
  /\ finished' = Append(finished, K)
  /\ IF kind < Len(Kinds)
     THEN kind' = kind + 1 /\ pc' = "begin" /\ UNCHANGED log
     ELSE pc' = "finally" /\ log' = log \cup { "completed" } /\ UNCHANGED kind
  /\ UNCHANGED << config, conn, closeCount, started, source_data, i, cursor, row_data, extracted, calls, committed, rolledBack, otherFault, readCalls, apiReads, storeOps, nextId, retrieval, run, ids, spreadsheet, pending >>

\* variant: no finally block
Finally_NoClose ==
  /\ pc = "finally"
  /\ pc' = "done"
  /\ UNCHANGED << config, conn, closeCount, kind, started, finished, source_data, i, cursor, row_data, extracted, calls, committed, rolledBack, otherFault, log, readCalls, apiReads, storeOps, nextId, retrieval, run, ids, spreadsheet, pending >>

\* finally: if ... self.db_connection.is_connected(): close() (lines 286-289).
\* is_connected() pings the server and may find the connection gone; a
\* close() that raises propagates out of process_all_data
Finally ==
  /\ pc = "finally"
  /\ pending' = { }
  /\ \/ /\ conn = "open"
        /\ conn' = "closed"
        /\ closeCount' = closeCount + 1
        /\ \/ pc' = "done" /\ log' = log \cup { "closed" }
           \/ pc' = "raised" /\ UNCHANGED log
     \/ /\ conn' = "lost"
        /\ pc' = "done"
        /\ UNCHANGED << closeCount, log >>
  /\ UNCHANGED << config, kind, started, finished, source_data, i, cursor, row_data, extracted, calls, committed, rolledBack, otherFault, readCalls, apiReads, storeOps, nextId, retrieval, run, ids, spreadsheet >>

Next ==
  \/ Begin
  \/ ReadSheet
  \/ OpenCursor
  \/ CallProc
  \/ StoredResults
  \/ Commit
  \/ Rollback
  \/ CloseCursor
  \/ Return
  \/ Finally

Spec == Init /\ [][Next]_vars

TypeOK ==
  /\ conn \in { "open", "lost", "closed" }
  /\ kind \in 1..Len(Kinds)
  /\ cursor \in { "none", "open", "closed" }
  /\ closeCount \in 0..1

\* ------------------------------------------------------------ repeated runs
\* The script is run Runs times (lines 291-292: a new SheetsETL, one call of
\* process_all_data) against ranges whose content does not change between the
\* runs: per kind, no values or the full header with at most MaxRunRows data
\* rows.  The uuid4 source never repeats a token, in a run or across runs.
Runs == 2
MaxRunRows == 1
FixedRanges(k) == { << >> } \cup { << FieldNames(k) >> \o rows : rows \in SeqsUpTo(RowSet(k), MaxRunRows) }

InitRuns ==
  /\ config = [ k \in KindSet |-> [ id |-> "set", range |-> "set" ] ]
  /\ conn = "open"
  /\ closeCount = 0
  /\ pc = "begin"
  /\ kind = 1
  /\ started = << >>
  /\ finished = << >>
  /\ source_data = << >>
  /\ i = 0
  /\ cursor = "none"
  /\ row_data = << >>
  /\ extracted = << >>
  /\ calls = << >>
  /\ committed = { }
  /\ rolledBack = { }
  /\ otherFault = FALSE
  /\ log = { }
  /\ readCalls = 0
  /\ apiReads = 0
  /\ storeOps = { }
  /\ nextId = 1
  /\ retrieval = "none"
  /\ run = 1
  /\ ids = << << >> >>
  /\ \E t \in FixedRanges("travel"), b \in FixedRanges("building"), n \in FixedRanges("incident") :
       spreadsheet = [ k \in KindSet |-> [ fixed |-> TRUE, values |-> IF k = "travel" THEN t ELSE IF k = "building" THEN b ELSE n ] ]
  /\ pending = { }

\* the script is started again: a new connection, a new run
Restart ==
  /\ pc \in { "done", "raised" }
  /\ run < Runs
  /\ run' = run + 1
  /\ ids' = Append(ids, << >>)
  /\ conn' = "open"
  /\ closeCount' = 0
  /\ pc' = "begin"
  /\ kind' = 1
  /\ started' = << >>
  /\ finished' = << >>
  /\ source_data' = << >>
  /\ i' = 0
  /\ cursor' = "none"
  /\ row_data' = << >>
  /\ extracted' = << >>
  /\ calls' = << >>
  /\ committed' = { }
  /\ rolledBack' = { }
  /\ otherFault' = FALSE
  /\ log' = { }
  /\ readCalls' = 0
  /\ apiReads' = 0
  /\ storeOps' = { }
  /\ retrieval' = "none"
  /\ UNCHANGED << config, nextId, spreadsheet, pending >>

NextRuns ==
  \/ Next
  \/ Restart

SpecRuns == InitRuns /\ [][NextRuns]_vars

\* ------------------------------------------------- row preparation alone
\* The normalise-and-extract prefix of a loop iteration (lines 118-126,
\* 185-189, 242-246) applied to one header and one data row drawn from all
\* sequences of at most MaxLen cells.
ColumnPool == { Name, Email, Department, Destination, StartDate, EndDate, Purpose, BuildingName, Address, TotalRooms, CsaId, IncidentType, Location, Bob }
CellPool == { Alice, EmptyStr }

InitRow ==
  /\ config = [ k \in KindSet |-> [ id |-> "set", range |-> "set" ] ]
  /\ conn = "open"
  /\ closeCount = 0
  /\ pc = "row"
  /\ kind \in 1..Len(Kinds)
  /\ started = << >>
  /\ finished = << >>
  /\ \E h \in SeqsUpTo(ColumnPool, MaxLen), r \in SeqsUpTo(CellPool, MaxLen) : source_data = << h, r >>
  /\ i = 1
  /\ cursor = "none"
  /\ row_data = << >>
  /\ extracted = << >>
  /\ calls = << >>
  /\ committed = { }
  /\ rolledBack = { }
  /\ otherFault = FALSE
  /\ log = { }
  /\ readCalls = 0
  /\ apiReads = 0
  /\ storeOps = { }
  /\ nextId = 1
  /\ retrieval = "none"
  /\ run = 1
  /\ ids = << << >> >>
  /\ spreadsheet = [ k \in KindSet |-> [ fixed |-> FALSE, values |-> << >> ] ]
  /\ pending = { }

\* row_data = row + [''] * (len(headers) - len(row))
NormalizeStep ==
  /\ pc = "row"
  /\ row_data' = NormalizeRow(headers, source_data[i + 1])
  /\ pc' = "normalized"
  /\ UNCHANGED << config, conn, closeCount, kind, started, finished, source_data, i, cursor, extracted, calls, committed, rolledBack, otherFault, log, readCalls, apiReads, storeOps, nextId, retrieval, run, ids, spreadsheet, pending >>

\* the lookups of the row's fields
ExtractStep ==
  /\ pc = "normalized"
  /\ extracted' = Extracted(K, row_data, headers)
  /\ pc' = "extracted"
  /\ UNCHANGED << config, conn, closeCount, kind, started, finished, source_data, i, cursor, row_data, calls, committed, rolledBack, otherFault, log, readCalls, apiReads, storeOps, nextId, retrieval, run, ids, spreadsheet, pending >>

NextRow ==
  \/ NormalizeStep
  \/ ExtractStep

SpecRow == InitRow /\ [][NextRow]_vars

\* ---------------------------------------------------- date parsing alone
\* The travel loop's row preparation (lines 118-126) applied to a range whose
\* only column is 'Start Date' and whose only data row holds one date string:
\* three fields joined by '-' or '/', the year first or last, the other two
\* fields being every string of at most MaxTokenLen characters of DateChars.
MaxTokenLen == 2
DateChars == { "0", "1", "3", "5", " " }
DateTokens(n) == SeqsUpTo(DateChars, n) \ { << >> }
DateYears == { << "2", "0", "2", "4" >>, << "1", "9", "9", "9" >> }
DateInputs(n) ==
  { t1 \o << sep >> \o t2 \o << sep >> \o y : t1 \in DateTokens(n), t2 \in DateTokens(n), y \in DateYears, sep \in { "-", "/" } }
  \cup { y \o << sep >> \o t1 \o << sep >> \o t2 : t1 \in DateTokens(n), t2 \in DateTokens(n), y \in DateYears, sep \in { "-", "/" } }
  \cup { EmptyStr, AliceMail }

InitDate ==
  /\ config = [ k \in KindSet |-> [ id |-> "set", range |-> "set" ] ]
  /\ conn = "open"
  /\ closeCount = 0
  /\ pc = "row"
  /\ kind = 1
  /\ started = << >>
  /\ finished = << >>
  /\ \E date_str \in DateInputs(MaxTokenLen) : source_data = << << StartDate >>, << date_str >> >>
  /\ i = 1
  /\ cursor = "none"
  /\ row_data = << >>
  /\ extracted = << >>
  /\ calls = << >>
  /\ committed = { }
  /\ rolledBack = { }
  /\ otherFault = FALSE
  /\ log = { }
  /\ readCalls = 0
  /\ apiReads = 0
  /\ storeOps = { }
  /\ nextId = 1
  /\ retrieval = "none"
  /\ run = 1
  /\ ids = << << >> >>
  /\ spreadsheet = [ k \in KindSet |-> [ fixed |-> FALSE, values |-> << >> ] ]
  /\ pending = { }

\* start_date = self._parse_date(...), end_date = self._parse_date(...)
\* (lines 124-125): the looked-up strings are replaced by what _parse_date
\* returns for them
ParseStep ==
  /\ pc = "extracted"
  /\ extracted' = FieldsOf(K, extracted)
  /\ pc' = "parsed"
  /\ UNCHANGED << config, conn, closeCount, kind, started, finished, source_data, i, cursor, row_data, calls, committed, rolledBack, otherFault, log, readCalls, apiReads, storeOps, nextId, retrieval, run, ids, spreadsheet, pending >>

NextDate ==
  \/ NormalizeStep
  \/ ExtractStep
  \/ ParseStep

SpecDate == InitDate /\ [][NextDate]_vars

\* ------------------------------------------------------------------ claims
\* the running processor opened its cursor and has returned
LoopLeft == pc = "return" /\ cursor # "none"
Finished == pc \in { "finally", "done", "raised" }
CallsOfRow(r) == { n \in 1..Len(calls) : calls[n].idx = r }
RaisedRows == { calls[n].idx : n \in { m \in 1..Len(calls) : calls[m].raised } }

\* C1: when the only failures of a processor run are stored-procedure calls
\* that raise, every data row is submitted once, exactly the rows whose call
\* raised are rolled back and every other row is committed.
C1_RowIsolation ==
  (LoopLeft /\ ~otherFault) =>
    /\ Len(calls) = NumDataRows
    /\ \A n \in 1..Len(calls) : calls[n].idx = n
    /\ rolledBack = RaisedRows
    /\ committed = (1..NumDataRows) \ RaisedRows

\* three data rows, the call for row 2 raised: rows 1 and 3 committed
C1_Witness ==
  /\ LoopLeft
  /\ ~otherFault
  /\ NumDataRows = 3
  /\ RaisedRows = { 2 }
  /\ committed = { 1, 3 }
  /\ rolledBack = { 2 }

\* C2: whatever fails while a data row is handled, every data row of the
\* range has had its procedure call attempted when the processor returns.
C2_LaterRowsStillProcessed ==
  LoopLeft => \A r \in 1..NumDataRows : CallsOfRow(r) # { }

\* C3: per data row at most one procedure call and exactly one of commit or
\* rollback; a row is committed only after its own call returned.
C3_OneCommitOrRollbackPerRow ==
  /\ \A n \in 1..Len(calls) : Cardinality(CallsOfRow(calls[n].idx)) <= 1
  /\ committed \cap rolledBack = { }
  /\ committed \cap RaisedRows = { }
  /\ \A r \in committed : CallsOfRow(r) # { }
  /\ pc = "commit" => (calls # << >> /\ calls[Len(calls)].idx = i /\ ~calls[Len(calls)].raised)
  /\ LoopLeft => \A r \in 1..NumDataRows : r \in committed \cup rolledBack

\* C4: the processors are started in the order travel, building, incident,
\* each after the one before it has returned, and process_all_data does not
\* reach its end before all three were started and have returned.
C4_FixedOrder ==
  /\ started = SubSeq(Kinds, 1, Len(started))
  /\ finished = SubSeq(Kinds, 1, Len(finished))
  /\ Len(finished) <= Len(started)
  /\ Len(started) <= Len(finished) + 1
  /\ Finished => (started = Kinds /\ finished = Kinds)
  /\ ~Finished => ENABLED Next

\* travel and building both raised into their outer except, incident ran
C4_Witness ==
  /\ pc = "done"
  /\ started = Kinds
  /\ config["travel"].id = "missing"
  /\ config["building"].range = "missing"
  /\ config["incident"].id = "set"
  /\ calls # << >>

C6_UnconfiguredIsNoOp ==
  /\ (pc # "begin" /\ config[K].id # "set") =>
       /\ pc \in { "return", "finally", "done", "raised" }
       /\ readCalls = 0
       /\ apiReads = 0
       /\ storeOps = { }
       /\ cursor = "none"
       /\ calls = << >>
       /\ committed = { }
       /\ rolledBack = { }
       /\ log \cap { "not_configured", "proc_error" } # { }
  /\ (Finished /\ \E k \in KindSet : config[k].id # "set") => started = Kinds

\* travel identifier empty, building has committed a row
C6_Witness ==
  /\ config["travel"].id = "empty"
  /\ K = "building"
  /\ pc = "return"
  /\ committed # { }

\* C7: the position argument of the call for the k-th data row is k.
C7_PositionIsDataRowIndex ==
  \A n \in 1..Len(calls) : calls[n].pos = calls[n].idx

\* C8: the normalised row has length max(len(row), len(header)), starts
\* with the row's own cells, every added cell is '', and a row at least as
\* long as the header is unchanged.
C8_PadNeverTruncate ==
  pc \in { "normalized", "extracted" } =>
    LET row == source_data[i + 1]
    IN /\ Len(row_data) = (IF Len(row) >= Len(headers) THEN Len(row) ELSE Len(headers))
       /\ \A j \in 1..Len(row) : j <= Len(row_data) /\ row_data[j] = row[j]
       /\ \A j \in (Len(row) + 1)..Len(row_data) : row_data[j] = EmptyStr
       /\ Len(row) >= Len(headers) => row_data = row

\* a row shorter than its header has been padded, and one longer kept whole
C8_Witness ==
  /\ pc = "normalized"
  /\ Len(source_data[i + 1]) = 1
  /\ Len(headers) = MaxLen
  /\ Len(row_data) = MaxLen

\* C9 as stated: a recognised name absent from the header yields '' (None
\* for CSA ID); a name present yields the normalised row's cell at the
\* header's index of the name; no lookup raises.
C9_MissingColumnDefault ==
  pc = "extracted" =>
    \A j \in 1..Len(FieldNames(K)) :
      LET name == FieldNames(K)[j]
      IN IF In(name, headers)
         THEN IndexOf(headers, name) < Len(row_data) /\ extracted[j] = row_data[IndexOf(headers, name) + 1]
         ELSE extracted[j] = (IF name = CsaId THEN None ELSE EmptyStr)

\* C9 amended: the default is '' except None for CSA ID and the integer 0
\* for Total Rooms.
C9_MissingColumnDefaultAmended ==
  pc = "extracted" =>
    \A j \in 1..Len(FieldNames(K)) :
      LET name == FieldNames(K)[j]
      IN IF In(name, headers)
         THEN IndexOf(headers, name) < Len(row_data) /\ extracted[j] = row_data[IndexOf(headers, name) + 1]
         ELSE extracted[j] = (IF name = CsaId THEN None ELSE IF name = TotalRooms THEN IntZero ELSE EmptyStr)

\* building row under a header without Total Rooms but with Address beyond
\* the row's end
C9_Witness ==
  /\ pc = "extracted"
  /\ K = "building"
  /\ ~In(TotalRooms, headers)
  /\ In(Address, headers)
  /\ IndexOf(headers, Address) >= Len(source_data[i + 1])
  /\ extracted[3] = IntZero
  /\ extracted[2] = EmptyStr

\* the fields of call n whose column lies beyond the end of its source row
BeyondRowEnd(n) ==
  { j \in 1..Len(FieldNames(K)) : In(FieldNames(K)[j], headers) /\ IndexOf(headers, FieldNames(K)[j]) >= Len(source_data[calls[n].idx + 1]) }

\* the row being handled reached callproc whenever its try block was left
\* by an exception, and rows the store accepted are committed
ShortRowsSubmitted ==
  /\ pc = "except" => (calls # << >> /\ calls[Len(calls)].idx = i)
  /\ (LoopLeft /\ ~otherFault) => \A n \in 1..Len(calls) : ~calls[n].raised => calls[n].idx \in committed

AliceBobCase ==
  (/\ LoopLeft
   /\ ~otherFault
   /\ K = "travel"
   /\ source_data = << << Name, Email >>, << Alice, AliceMail >>, << Bob >> >>
   /\ RaisedRows = { }) =>
     /\ Len(calls) = 2
     /\ committed = { 1, 2 }
     /\ calls[1].fields[2] = AliceMail
     /\ calls[2].fields[2] = EmptyStr

\* C10 as stated: a short row is submitted, and committed when the store
\* accepts it, with '' for every recognised field beyond the row's end.
C10_ShortRowEmptyString ==
  /\ pc # "begin" => \A n \in 1..Len(calls) : \A j \in BeyondRowEnd(n) : calls[n].fields[j] = EmptyStr
  /\ ShortRowsSubmitted
  /\ AliceBobCase

\* C10 amended: ... with '' for every recognised field beyond the row's
\* end, except the travel Start Date and End Date, which are submitted as
\* None.
C10_ShortRowDefaults ==
  /\ pc # "begin" => \A n \in 1..Len(calls) : \A j \in BeyondRowEnd(n) :
       calls[n].fields[j] = (IF FieldNames(K)[j] \in { StartDate, EndDate } THEN None ELSE EmptyStr)
  /\ ShortRowsSubmitted
  /\ AliceBobCase

\* header [Name, Email], rows [Alice, a@x.com] and [Bob]: two commits
C10_Witness ==
  /\ LoopLeft
  /\ K = "travel"
  /\ source_data = << << Name, Email >>, << Alice, AliceMail >>, << Bob >> >>
  /\ committed = { 1, 2 }
  /\ calls[1].fields[2] = AliceMail
  /\ calls[2].fields[2] = EmptyStr

\* the date string the range holds and what _parse_date returned for it
DateIn == source_data[2][1]
DateOut == extracted[5]
Slashes(d) == { p \in 1..Len(d) : d[p] = "/" }
IsSlashForm(d) == Cardinality(Slashes(d)) = 2
FirstSlash(d) == CHOOSE p \in Slashes(d) : \A q \in Slashes(d) : p <= q
LastSlash(d) == CHOOSE p \in Slashes(d) : \A q \in Slashes(d) : q <= p
FirstField(d) == SubSeq(d, 1, FirstSlash(d) - 1)
SecondField(d) == SubSeq(d, FirstSlash(d) + 1, LastSlash(d) - 1)
ThirdField(d) == SubSeq(d, LastSlash(d) + 1, Len(d))
\* the number a field of one or two digits writes, -1 for any other field
DigitNum(t) ==
  IF Len(t) = 1 /\ IsDigit(t[1]) THEN DigitVal(t[1])
  ELSE IF Len(t) = 2 /\ IsDigit(t[1]) /\ IsDigit(t[2]) THEN 10 * DigitVal(t[1]) + DigitVal(t[2])
  ELSE -1
\* the same, a blank before a single digit allowed
SpacedNum(t) == IF Len(t) = 2 /\ t[1] = " " /\ IsDigit(t[2]) THEN DigitVal(t[2]) ELSE DigitNum(t)
YearNum(t) ==
  IF Len(t) = 4 /\ \A p \in 1..4 : IsDigit(t[p])
  THEN 1000 * DigitVal(t[1]) + 100 * DigitVal(t[2]) + 10 * DigitVal(t[3]) + DigitVal(t[4])
  ELSE -1
Us03052024 == << "0", "3", "/", "0", "5", "/", "2", "0", "2", "4" >>
Iso20240305 == << "2", "0", "2", "4", "-", "0", "3", "-", "0", "5" >>

\* C11 as stated: '2024-03-15' is returned unchanged, '03/15/2024' gives
\* '2024-03-15', a slash date whose first two numbers are both at most 12 is
\* read as month/day, and one whose first number is a day above 12 and whose
\* second is at most 12 is read as day/month.
C11_PatternOrder ==
  pc = "parsed" =>
    /\ DateIn = Iso20240315 => DateOut = Iso20240315
    /\ DateIn = Us03152024 => DateOut = Iso20240315
    /\ (IsSlashForm(DateIn) /\ YearNum(ThirdField(DateIn)) >= 1000) =>
         LET n1 == SpacedNum(FirstField(DateIn))
             n2 == SpacedNum(SecondField(DateIn))
             y == YearNum(ThirdField(DateIn))
         IN /\ (n1 \in 1..12 /\ n2 \in 1..12) => DateOut = Strftime([ Y |-> y, m |-> n1, d |-> n2 ])
            /\ (n1 > 12 /\ n2 \in 1..12 /\ n1 <= DaysInMonth(y, n2)) => DateOut = Strftime([ Y |-> y, m |-> n2, d |-> n1 ])

\* C11 amended: the same for slash dates whose first two numbers are written
\* with digits only; a first number written as a blank and one digit is not
\* accepted as a month, so such a date is read as day/month when the second
\* number is written with digits only, and is not parsed otherwise.
C11_PatternOrderDigits ==
  pc = "parsed" =>
    /\ DateIn = Iso20240315 => DateOut = Iso20240315
    /\ DateIn = Us03152024 => DateOut = Iso20240315
    /\ (IsSlashForm(DateIn) /\ YearNum(ThirdField(DateIn)) >= 1000) =>
         LET n1 == DigitNum(FirstField(DateIn))
             n2 == DigitNum(SecondField(DateIn))
             s1 == SpacedNum(FirstField(DateIn))
             s2 == SpacedNum(SecondField(DateIn))
             y == YearNum(ThirdField(DateIn))
         IN /\ (n1 \in 1..12 /\ n2 \in 1..12) => DateOut = Strftime([ Y |-> y, m |-> n1, d |-> n2 ])
            /\ (n1 > 12 /\ n2 \in 1..12 /\ n1 <= DaysInMonth(y, n2)) => DateOut = Strftime([ Y |-> y, m |-> n2, d |-> n1 ])
            /\ (n1 = -1 /\ s1 \in 1..9 /\ n2 \in 1..12) => DateOut = Strftime([ Y |-> y, m |-> n2, d |-> s1 ])
            /\ (n1 = -1 /\ s1 \in 1..9 /\ n2 = -1 /\ s2 \in 1..9) => DateOut = None

\* '03/05/2024', which both slash patterns accept, was read as March 5
C11_Witness ==
  /\ pc = "parsed"
  /\ DateIn = Us03052024
  /\ DateOut = Iso20240305

\* the cell a data row holds under a column name, '' when the header lacks the
\* column or the row ends before it
RawCell(row, name) == Extract(NormalizeRow(headers, row), headers, name, EmptyStr)
DateFields == { j \in 1..Len(FieldNames("travel")) : FieldNames("travel")[j] \in { StartDate, EndDate } }

\* C12: a travel row whose Start Date or End Date cell is empty, is not a
\* date, or has no column in the header is submitted with None for that field
\* and committed when the store accepts it; only store failures send a row to
\* its rollback.
C12_DateQualityNoFailure ==
  (K = "travel" /\ pc # "begin") =>
    /\ \A n \in 1..Len(calls) : \A j \in DateFields :
         LET cell == RawCell(source_data[calls[n].idx + 1], FieldNames(K)[j])
         IN cell \in { EmptyStr, AliceMail } => calls[n].fields[j] = None
    /\ pc = "except" => (calls # << >> /\ calls[Len(calls)].idx = i)
    /\ \A r \in rolledBack : CallsOfRow(r) # { }
    /\ ~otherFault => rolledBack \subseteq RaisedRows
    /\ (LoopLeft /\ ~otherFault) => \A n \in 1..Len(calls) : ~calls[n].raised => calls[n].idx \in committed

\* header [Name, Start Date]: a row whose Start Date cell is not a date and a
\* row that ends before the column were both committed with None for both
\* dates, End Date having no column
C12_Witness ==
  /\ LoopLeft
  /\ K = "travel"
  /\ source_data = << << Name, StartDate >>, << Alice, AliceMail >>, << Bob >> >>
  /\ committed = { 1, 2 }
  /\ rolledBack = { }
  /\ calls[1].fields[5] = None
  /\ calls[2].fields[5] = None
  /\ calls[1].fields[6] = None

\* log entries written at error level
ErrorEntries == { "proc_error", "not_configured", "missing_id_or_range", "read_error", "row_error", "all_error" }
\* the retrieval returned, with no rows at all or with a header row only
EmptyRange == pc = "return" /\ retrieval = "empty"
HeaderOnly == pc = "return" /\ retrieval = "rows" /\ NumDataRows = 0

\* C13 as stated: when the read returns no rows at all or only a header row,
\* the processor issues no procedure call, commit or rollback, logs the
\* informational "no data" entry, logs no error and returns.
C13_EmptyRangeNoOp ==
  (EmptyRange \/ HeaderOnly) =>
    /\ calls = << >>
    /\ storeOps \cap { "callproc", "commit", "rollback" } = { }
    /\ "no_data" \in log
    /\ log \cap ErrorEntries = { }

IdSet(r) == { ids[r][n] : n \in 1..Len(ids[r]) }

\* C14: with uuid4 never repeating a token, no two procedure calls of a run
\* carry the same identity, and the identities of two runs against unchanged
\* ranges are disjoint.
C14_FreshIdentities ==
  /\ \A r \in 1..Len(ids) : \A a, b \in 1..Len(ids[r]) : a # b => ids[r][a] # ids[r][b]
  /\ \A r1, r2 \in 1..Len(ids) : r1 # r2 => IdSet(r1) \cap IdSet(r2) = { }
  /\ pc # "begin" => \A n \in 1..Len(calls) : calls[n].response_id \in IdSet(run)

\* the second run has ended; both runs submitted one row of each kind
C14_Witness ==
  /\ run = 2
  /\ pc = "done"
  /\ \A k \in KindSet : Len(spreadsheet[k].values) = 2
  /\ Len(ids[1]) = 3
  /\ Len(ids[2]) = 3

\* a processor is between its call and its return
Running == pc \in { "read", "cursor", "loop", "results", "commit", "except", "return" }

\* C15: the procedure calls of a processor are issued in the order of the
\* data rows, each row is committed or rolled back before the next row's
\* call, and a processor issues store operations only after every earlier
\* processor has returned and before the next one is called.
C15_SequentialRows ==
  /\ pc # "begin" =>
       /\ \A a, b \in 1..Len(calls) : a < b => calls[a].idx < calls[b].idx
       /\ \A n \in 1..Len(calls) : source_data[calls[n].idx + 1] = source_data[n + 1]
       /\ \A n \in 1..(Len(calls) - 1) : calls[n].idx \in committed \cup rolledBack
       /\ \A r \in committed \cup rolledBack : r < i
  /\ (Running /\ storeOps # { }) =>
       /\ started = SubSeq(Kinds, 1, kind)
       /\ finished = SubSeq(Kinds, 1, kind - 1)
       /\ \A n \in 1..Len(calls) : calls[n].proc = ProcName(K)

\* building, after travel issued store operations: row 1 committed, row 2
\* rolled back, row 3 called
C15_Witness ==
  /\ kind = 2
  /\ pc = "results"
  /\ Len(ids[1]) > 3
  /\ Len(calls) = 3
  /\ committed = { 1 }
  /\ rolledBack = { 2 }

\* C16: whenever the retrieval call fails, read_sheet returns [] and the
\* processor takes the "no data" path: no store operation, the informational
\* entry, no exception reaching the processor's handler.
C16_ReadFailureIsNoData ==
  (pc = "return" /\ retrieval \in { "http_error", "exception" }) =>
    /\ source_data = << >>
    /\ storeOps = { }
    /\ "no_data" \in log
    /\ "proc_error" \notin log

\* C17: whatever fails in a run, process_all_data returns normally: no
\* exception leaves it.
C17_NoExceptionToCaller == pc # "raised"

\* C18: whenever a commit is about to be issued, the uncommitted work on the
\* connection is the procedure call of the row being committed and nothing
\* else.
C18_RowIsOwnTransaction == pc = "commit" => pending = { << kind, i >> }

\* C19: no two procedure calls of a processor run carry the same row
\* position.
C19_DistinctPositions ==
  pc # "begin" => \A a, b \in 1..Len(calls) : a # b => calls[a].pos # calls[b].pos

\* C20: when a processor returns, close() has been called on the cursor it
\* opened, on every path.
C20_CursorClosedAtReturn ==
  (pc = "return" /\ cursor # "none") => "cursor_close" \in storeOps

====
